---- MODULE Spec2Model ----
(***************************************************************************)
(* Model of Scripts/update_file_dates.py, the header date-stamper of rBUM. *)
(*                                                                         *)
(* Text is a sequence of symbols.  A symbol is either one character        *)
(* ("\n", " ", "#", "x", a digit) or one of the literals the script        *)
(* matches or emits as a unit ("//", "First created:", "Last updated:",    *)
(* "Update count:", a date, the file name, "rBUM").  Every symbol counts   *)
(* as one position, so len(), slicing and the regular expressions work on  *)
(* symbol positions exactly as the script works on character positions.    *)
(***************************************************************************)
EXTENDS Naturals, Sequences, FiniteSets, TLC

VARIABLES
    fs,        \* the project tree: path -> text content of the file
    today,     \* CURRENT_DATE of the run in progress
    pc,        \* "idle" | "walk" | "done" | "aborted" | "call"
    ext,       \* index into the extension loop of main (1 = .swift, 2 = .md)
    listing,   \* the order in which the file system lists the paths of the tree
    todo,      \* what the current rglob() has still to yield, in that order
    out,       \* standard output of the run in progress, one line per entry
    reads,     \* path -> number of times the file was opened for reading
    writes,    \* path -> number of times the file was opened for writing
    runs,      \* number of runs started so far
    io,        \* "faulty" when opening, reading or writing a file may raise
    fs0,       \* the tree as it was before the first run
    fsStart,   \* the tree as it was when the run in progress started
    prevRun,   \* how the previous run went: [date, ok] or NoRun
    returned,  \* paths whose process_file call returned normally in this run
    failedAt,  \* the path whose read or write raised, or NoPath
    last       \* the latest process_file call: [path, content, new, wrote]

vars == <<fs, today, pc, ext, listing, todo, out, reads, writes, runs, io,
          fs0, fsStart, prevRun, returned, failedAt, last>>

----------------------------------------------------------------------------
(* Symbols *)

NL == "\n"
SP == " "
SL == "//"
HASH == "#"
FC == "First created:"
LU == "Last updated:"
UC == "Update count:"
RBUM == "rBUM"
CREATION_DATE == "6 February 2025"
OtherDate == "1 January 2024"
Dates == {"7 February 2025", "8 February 2025"}
Digits == <<"0", "1", "2", "3", "4", "5", "6", "7", "8", "9">>

\* COUNTER_ENABLED = False  # Will be enabled upon first release
COUNTER_ENABLED_on == TRUE
COUNTER_ENABLED == FALSE

\* Python's None, and an optional integer n as <<n>>
None == <<>>
Some(n) == <<n>>

\* what At() yields outside the text: no symbol
NoSym == ""

----------------------------------------------------------------------------
(* Sequence helpers: the str operations the script uses *)

Min(S) == CHOOSE m \in S : \A n \in S : m <= n

\* s[a:b] of Python for 0-based a, b already clamped by the caller to 0..
Slice(s, a, b) ==
    LET hi == IF b > Len(s) THEN Len(s) ELSE b
    IN  IF a >= hi THEN <<>> ELSE SubSeq(s, a + 1, hi)

\* s[a:]
From(s, a) == Slice(s, a, Len(s))

\* 1-based index of the first "\n" at or after i, Len(s) + 1 when there is none
LineEnd(s, i) ==
    LET c == {j \in i..Len(s) : s[j] = NL}
    IN  IF c = {} THEN Len(s) + 1 ELSE Min(c)

At(s, i) == IF i >= 1 /\ i <= Len(s) THEN s[i] ELSE NoSym

RECURSIVE SplitFrom(_, _)
SplitFrom(s, i) ==
    LET e == LineEnd(s, i)
    IN  IF e > Len(s) THEN <<Slice(s, i - 1, Len(s))>>
        ELSE <<Slice(s, i - 1, e - 1)>> \o SplitFrom(s, e + 1)

\* content.split('\n')
Split(s) == SplitFrom(s, 1)

RECURSIVE Join(_)
\* '\n'.join(lines)
Join(lines) ==
    IF Len(lines) = 0 THEN <<>>
    ELSE IF Len(lines) = 1 THEN lines[1]
    ELSE lines[1] \o <<NL>> \o Join(Tail(lines))

RECURSIVE Concat(_)
Concat(ss) == IF Len(ss) = 0 THEN <<>> ELSE ss[1] \o Concat(Tail(ss))

\* line.strip() is non-empty
HasText(line) == \E i \in 1..Len(line) : line[i] # SP

StartsWith(s, p) == Len(s) >= Len(p) /\ SubSeq(s, 1, Len(p)) = p

----------------------------------------------------------------------------
(* get_update_count *)

IsDigit(c) == \E d \in 1..10 : Digits[d] = c
DigitVal(c) == (CHOOSE d \in 1..10 : Digits[d] = c) - 1

RECURSIVE ParseInt(_, _, _)
\* int() of the longest run of digits that starts at position i
ParseInt(s, i, acc) ==
    IF IsDigit(At(s, i)) THEN ParseInt(s, i + 1, 10 * acc + DigitVal(s[i])) ELSE acc

RECURSIVE FormatInt(_)
\* str(n)
FormatInt(n) ==
    IF n < 10 THEN <<Digits[n + 1]>> ELSE FormatInt(n \div 10) \o <<Digits[(n % 10) + 1]>>

\* re.search(r"Update count: (\d+)", content)
CountMatches(content) ==
    {i \in 1..Len(content) :
        content[i] = UC /\ At(content, i + 1) = SP /\ IsDigit(At(content, i + 2))}

get_update_count(content) ==
    IF ~COUNTER_ENABLED THEN None
    ELSE IF CountMatches(content) = {} THEN Some(1)
    ELSE Some(ParseInt(content, Min(CountMatches(content)) + 2, 0) + 1)

----------------------------------------------------------------------------
(* Paths: a path is a sequence of components, a component a sequence of     *)
(* name symbols, e.g. <<"Sources">>, <<"A", ".", "swift">>, <<".", "git">>. *)

\* file_path.name
Name(path) == path[Len(path)]

\* file_path.suffix: from the last "." of the name, unless the name starts
\* or ends with that "."
Suffix(path) ==
    LET n == Name(path)
        dots == {i \in 1..Len(n) : n[i] = "."}
        i == CHOOSE k \in dots : \A j \in dots : j <= k
    IN  IF dots = {} THEN <<>>
        ELSE IF i > 1 /\ i < Len(n) THEN SubSeq(n, i, Len(n)) ELSE <<>>

SWIFT == <<".", "swift">>
MD == <<".", "md">>

----------------------------------------------------------------------------
(* update_swift_file *)

\* header_pattern = r"//\n//.*?\n//.*?\n//\n" tried at position p:
\* the position of the last symbol of the match, 0 when it does not match
HeaderMatchEnd(s, p) ==
    IF At(s, p) = SL /\ At(s, p + 1) = NL /\ At(s, p + 2) = SL
    THEN LET e1 == LineEnd(s, p + 3)
         IN  IF e1 <= Len(s) /\ At(s, e1 + 1) = SL
             THEN LET e2 == LineEnd(s, e1 + 2)
                  IN  IF e2 <= Len(s) /\ At(s, e2 + 1) = SL /\ At(s, e2 + 2) = NL
                      THEN e2 + 2 ELSE 0
             ELSE 0
    ELSE 0

RECURSIVE SubHeaderFrom(_, _, _)
\* re.sub(header_pattern, repl, s) from position p on: every non-overlapping
\* match, leftmost first, is replaced
SubHeaderFrom(s, p, repl) ==
    LET m == {q \in p..Len(s) : HeaderMatchEnd(s, q) # 0}
    IN  IF m = {} THEN From(s, p - 1)
        ELSE Slice(s, p - 1, Min(m) - 1) \o repl
             \o SubHeaderFrom(s, HeaderMatchEnd(s, Min(m)) + 1, repl)

swift_counter_str(content) ==
    IF COUNTER_ENABLED
    THEN <<SL, SP, SP, UC, SP>> \o FormatInt(get_update_count(content)[1]) \o <<NL>>
    ELSE <<>>

new_header(content, file_path, date) ==
    <<SL, NL>>
    \o <<SL, SP, SP>> \o Name(file_path) \o <<NL>>
    \o <<SL, SP, SP, RBUM, NL>>
    \o <<SL, NL>>
    \o <<SL, SP, SP, FC, SP, CREATION_DATE, NL>>
    \o <<SL, SP, SP, LU, SP, date, NL>>
    \o swift_counter_str(content)
    \o <<SL, NL>>

update_swift_file(content, file_path, date) ==
    IF HeaderMatchEnd(content, 1) # 0
    THEN SubHeaderFrom(content, 1, new_header(content, file_path, date))
    ELSE new_header(content, file_path, date) \o content

----------------------------------------------------------------------------
(* update_markdown_file *)

\* the first loop: index just past the first line starting with "# ", else 0
title_end(lines) ==
    LET t == {i \in 1..Len(lines) : StartsWith(lines[i], <<HASH, SP>>)}
    IN  IF t = {} THEN 0 ELSE Min(t)

RECURSIVE desc_scan(_, _, _)
\* the second loop, at 0-based index i with desc_end = d so far
desc_scan(lines, i, d) ==
    IF i >= Len(lines) THEN d
    ELSE IF HasText(lines[i + 1]) /\ ~StartsWith(lines[i + 1], <<FC>>)
         THEN desc_scan(lines, i + 1, i + 1)
    ELSE IF ~HasText(lines[i + 1]) THEN desc_scan(lines, i + 1, d)
    ELSE d

desc_end(lines) == desc_scan(lines, title_end(lines), title_end(lines))

\* header = '\n'.join(lines[:desc_end]); if header: header += '\n\n'
md_header(content) ==
    LET lines == Split(content)
        h == Join(SubSeq(lines, 1, desc_end(lines)))
    IN  IF h # <<>> THEN h \o <<NL, NL>> ELSE h

md_counter_str(content) ==
    IF COUNTER_ENABLED
    THEN <<UC, SP>> \o FormatInt(get_update_count(content)[1]) \o <<NL>>
    ELSE <<>>

\* the date block with the current date written as the creation date
date_section_today(content, date) ==
    <<FC, SP, date, NL, LU, SP, date, NL>> \o md_counter_str(content) \o <<NL>>

date_section(content, date) ==
    <<FC, SP, CREATION_DATE, NL, LU, SP, date, NL>> \o md_counter_str(content) \o <<NL>>

\* r"First created:.*?\n.*?Last updated:.*?\n(Update count:.*?\n)?\n?" tried at
\* position p: the position of the last symbol of the match, 0 when none
DatesMatchEnd(s, p) ==
    IF At(s, p) # FC THEN 0
    ELSE LET e1 == LineEnd(s, p + 1)
             e2 == LineEnd(s, e1 + 1)
         IN  IF e1 <= Len(s) /\ e2 <= Len(s) /\ (\E j \in (e1 + 1)..(e2 - 1) : s[j] = LU)
             THEN LET e3 == IF At(s, e2 + 1) = UC /\ LineEnd(s, e2 + 2) <= Len(s)
                            THEN LineEnd(s, e2 + 2) ELSE e2
                  IN  IF At(s, e3 + 1) = NL THEN e3 + 1 ELSE e3
             ELSE 0

RECURSIVE StripDatesFrom(_, _)
\* re.sub(that pattern, "", s) from position p on
StripDatesFrom(s, p) ==
    LET m == {q \in p..Len(s) : DatesMatchEnd(s, q) # 0}
    IN  IF m = {} THEN From(s, p - 1)
        ELSE Slice(s, p - 1, Min(m) - 1) \o StripDatesFrom(s, DatesMatchEnd(s, Min(m)) + 1)

\* re.search(r"\n##\s+", t): Some(match.start()) (0-based), None when no match
SectionSearch(t) ==
    LET m == {i \in 1..Len(t) :
                 t[i] = NL /\ At(t, i + 1) = HASH /\ At(t, i + 2) = HASH
                 /\ At(t, i + 3) \in {SP, NL}}
    IN  IF m = {} THEN None ELSE Some(Min(m) - 1)

update_markdown_file(content, file_path, date) ==
    LET header == md_header(content)
        section == date_section(content, date)
        stripped == StripDatesFrom(content, 1)
        match == SectionSearch(From(stripped, Len(header)))
    IN  IF match # None
        THEN LET insert_pos == Len(header) + match[1]
             IN  Slice(stripped, 0, insert_pos) \o section \o From(stripped, insert_pos)
        ELSE header \o section \o From(stripped, Len(header))

----------------------------------------------------------------------------
(* Bounds and inputs *)

MaxRuns == 2      \* runs of main, or direct process_file calls, in a behaviour
MaxChunks == 4    \* pieces an initial file content is put together from

NoPath == <<>>
NoRun == [date |-> "", ok |-> FALSE, none |-> TRUE]

\* project_root = Path("/Users/mpy/CascadeProjects/rBUM")
project_root == <<<<"/">>, <<"Users">>, <<"mpy">>, <<"CascadeProjects">>, <<"rBUM">>>>

A_swift == project_root \o <<<<"Sources">>, <<"A", ".", "swift">>>>
B_swift == project_root \o <<<<"builds">>, <<"B", ".", "swift">>>>
README_md == project_root \o <<<<"README", ".", "md">>>>
Pods_swift == project_root \o <<<<"Pods">>, <<"Lib">>, <<"P", ".", "swift">>>>
Carthage_swift == project_root \o <<<<"Carthage">>, <<"E", ".", "swift">>>>
build_md == project_root \o <<<<"Sources">>, <<"build">>, <<"D", ".", "md">>>>
github_md == project_root \o <<<<".", "github">>, <<"C", ".", "md">>>>
hidden_md == project_root \o <<<<"docs">>, <<".", "H", ".", "md">>>>
notes_txt == project_root \o <<<<"notes", ".", "txt">>>>

\* the tree, in one order a directory walk may list it
Listing == <<A_swift, Pods_swift, B_swift, Carthage_swift, notes_txt,
             github_md, README_md, build_md, hidden_md>>

TreePaths == {Listing[i] : i \in 1..Len(Listing)}

Reverse(s) == [i \in 1..Len(s) |-> s[Len(s) + 1 - i]]

\* a four-line comment header as an IDE template writes it
OldHeader == <<SL, NL, SL, SP, "x", NL, SL, SP, "x", NL, SL, NL>>

SwiftChunks ==
    { <<SL, NL>>, <<"x", NL>>, <<"x">>, OldHeader }

MdChunks ==
    { <<HASH, SP, "x", NL>>,                          \* a title line
      <<"x", NL>>,                                    \* a line of text
      <<NL>>,                                         \* a blank line
      <<HASH, HASH, SP, "x", NL, "x">>,               \* a section header and its text
      <<FC, SP, OtherDate, NL, LU, SP, OtherDate, NL>> }  \* an older date block

\* a header as the script itself wrote it on an earlier day, with the counter
\* line of a release build
StampedHeader ==
    <<SL, NL, SL, SP, SP, "A", ".", "swift", NL, SL, SP, SP, RBUM, NL, SL, NL,
      SL, SP, SP, FC, SP, CREATION_DATE, NL, SL, SP, SP, LU, SP, OtherDate, NL,
      SL, SP, SP, UC, SP, "1", NL, SL, NL>>

\* pieces of files that hold an update counter
SwiftCounterChunks ==
    { StampedHeader, <<"x", NL>>, <<SL, SP, SP, UC, SP, "9", NL>> }

MdCounterChunks ==
    { <<HASH, SP, "x", NL, NL>>,
      <<FC, SP, CREATION_DATE, NL, LU, SP, OtherDate, NL, UC, SP, "1", NL, NL>>,
      <<UC, SP, "1", "9", NL>>,
      <<HASH, HASH, SP, "x", NL>> }

Texts(chunks, n) == {Concat(cs) : cs \in UNION {[1..k -> chunks] : k \in 0..n}}

InputsFor(path) ==
    IF Suffix(path) = SWIFT
    THEN Texts(SwiftChunks, MaxChunks) \cup Texts(SwiftCounterChunks, MaxChunks)
    ELSE IF Suffix(path) = MD
    THEN Texts(MdChunks, MaxChunks) \cup Texts(MdCounterChunks, MaxChunks)
    ELSE Texts({<<"x", NL>>, OldHeader, <<HASH, SP, "x", NL>>}, MaxChunks)

\* the content of the files of the tree that main must leave alone
OtherContent == OldHeader \o <<HASH, SP, "x", NL, "x", NL>>

\* a few contents for the files of a whole tree
SmallInputsFor(path) ==
    IF Suffix(path) = SWIFT THEN {<<"x", NL>>, OldHeader \o <<"x", NL>>}
    ELSE IF Suffix(path) = MD
    THEN {<<HASH, SP, "x", NL, NL, HASH, HASH, SP, "x", NL>>,
          <<HASH, SP, "x", NL, FC, SP, OtherDate, NL, LU, SP, OtherDate, NL, "x", NL>>}
    ELSE {OtherContent}

----------------------------------------------------------------------------
(* process_file *)

Bump(f, p) == [f EXCEPT ![p] = @ + 1]

\* what an open(file_path, 'w') / f.write(new_content) that raises can leave in
\* the file: the old content (open failed), nothing (truncated), or a part of
\* the new content (the flush failed midway)
FailedWriteLeaves(content, new) ==
    {content, <<>>} \cup {SubSeq(new, 1, k) : k \in 1..(Len(new) - 1)}

rendered(content, file_path, date) ==
    IF Suffix(file_path) = SWIFT THEN Some(update_swift_file(content, file_path, date))
    ELSE IF Suffix(file_path) = MD THEN Some(update_markdown_file(content, file_path, date))
    ELSE None

\* if new_content != content (changed_always: the file is written regardless)
changed_always(new_content, content) == TRUE
changed(new_content, content) == new_content # content

\* an uncaught exception leaves process_file and main: the run is over
\* (OnIOError_continue: the error is swallowed and the loop goes on)
OnIOError_continue == "walk"
OnIOError == "aborted"

Raise(p) ==
    /\ io = "faulty"
    /\ pc' = OnIOError
    /\ failedAt' = p
    /\ UNCHANGED <<out, returned, io>>

Return(p) ==
    /\ returned' = returned \cup {p}
    /\ UNCHANGED <<pc, io, failedAt>>

process_file(file_path, date) ==
    \E outcome \in {"ok", "read_error", "write_error"} :
        LET content == fs[file_path]
            new_content == rendered(content, file_path, date)
        IN  /\ reads' = Bump(reads, file_path)
            /\ IF outcome = "read_error"
               THEN /\ Raise(file_path)
                    /\ last' = [path |-> file_path, content |-> <<>>, new |-> None,
                                wrote |-> FALSE, raised |-> TRUE]
                    /\ UNCHANGED <<fs, writes>>
               ELSE IF new_content = None \/ ~changed(new_content[1], content)
               THEN /\ outcome = "ok"
                    /\ Return(file_path)
                    /\ last' = [path |-> file_path, content |-> content,
                                new |-> new_content, wrote |-> FALSE, raised |-> FALSE]
                    /\ UNCHANGED <<fs, writes, out>>
               ELSE IF outcome = "ok"
               THEN /\ fs' = [fs EXCEPT ![file_path] = new_content[1]]
                    /\ writes' = Bump(writes, file_path)
                    /\ out' = Append(out, <<"Updated", file_path>>)
                    /\ returned' = returned \cup {file_path}
                    /\ last' = [path |-> file_path, content |-> content,
                                new |-> new_content, wrote |-> TRUE, raised |-> FALSE]
                    /\ UNCHANGED <<pc, io, failedAt>>
               ELSE /\ Raise(file_path)
                    /\ writes' = Bump(writes, file_path)
                    /\ \E left \in FailedWriteLeaves(content, new_content[1]) :
                           fs' = [fs EXCEPT ![file_path] = left]
                    /\ last' = [path |-> file_path, content |-> content,
                                new |-> new_content, wrote |-> FALSE, raised |-> TRUE]

----------------------------------------------------------------------------
(* main *)

Exts == <<SWIFT, MD>>

EndsWith(s, e) == Len(s) >= Len(e) /\ SubSeq(s, Len(s) - Len(e) + 1, Len(s)) = e

\* project_root.rglob(f"*{ext}")
rglob(e) ==
    LET Matches(p) == EndsWith(Name(p), e) IN SelectSeq(listing, Matches)

\* any(part.startswith('.') or part in ['build', 'Pods', 'Carthage']
\*     for part in file_path.parts)
\* the filter without 'Carthage'
Excluded_no_Carthage(file_path) ==
    \E i \in 1..Len(file_path) :
        \/ file_path[i][1] = "."
        \/ file_path[i] \in {<<"build">>, <<"Pods">>}

Excluded(file_path) ==
    \E i \in 1..Len(file_path) :
        \/ file_path[i][1] = "."
        \/ file_path[i] \in {<<"build">>, <<"Pods">>, <<"Carthage">>}

Banner ==
    IF COUNTER_ENABLED
    THEN "Warning: Update counter is enabled. This should only be true for release."
    ELSE "Note: Update counter is disabled during core development."

Zero(tree) == [p \in tree |-> 0]

\* the script starts: CURRENT_DATE is taken, main prints its banner and
\* enters the loop over the extensions.  A behaviour ends with the run that
\* aborts: what a later run does with the tree it left is a run from another
\* initial tree.
StartRun ==
    /\ pc \in {"idle", "done"}
    /\ runs < MaxRuns
    /\ runs' = runs + 1
    /\ today' \in Dates
    /\ prevRun' = IF runs = 0 THEN NoRun
                  ELSE [date |-> today, ok |-> TRUE, none |-> FALSE]
    /\ out' = <<Banner>>
    /\ ext' = 1
    /\ todo' = rglob(Exts[1])
    /\ reads' = Zero(DOMAIN fs)
    /\ writes' = Zero(DOMAIN fs)
    /\ fsStart' = fs
    /\ returned' = {}
    /\ failedAt' = NoPath
    /\ pc' = "walk"
    /\ UNCHANGED <<fs, fs0, listing, io, last>>

\* the loop body on an excluded path: continue
Skip ==
    /\ pc = "walk"
    /\ todo # <<>>
    /\ Excluded(Head(todo))
    /\ todo' = Tail(todo)
    /\ UNCHANGED <<fs, today, pc, ext, listing, out, reads, writes, runs, io,
                   fs0, fsStart, prevRun, returned, failedAt, last>>

\* the loop body on any other path: process_file(file_path)
Visit ==
    /\ pc = "walk"
    /\ todo # <<>>
    /\ ~Excluded(Head(todo))
    /\ process_file(Head(todo), today)
    /\ todo' = Tail(todo)
    /\ UNCHANGED <<today, ext, listing, runs, fs0, fsStart, prevRun>>

\* the inner loop is exhausted: the next extension
NextExt ==
    /\ pc = "walk"
    /\ todo = <<>>
    /\ ext < Len(Exts)
    /\ ext' = ext + 1
    /\ todo' = rglob(Exts[ext + 1])
    /\ UNCHANGED <<fs, today, pc, listing, out, reads, writes, runs, io,
                   fs0, fsStart, prevRun, returned, failedAt, last>>

\* both loops are exhausted: main returns
Finish ==
    /\ pc = "walk"
    /\ todo = <<>>
    /\ ext = Len(Exts)
    /\ pc' = "done"
    /\ UNCHANGED <<fs, today, ext, listing, todo, out, reads, writes, runs, io,
                   fs0, fsStart, prevRun, returned, failedAt, last>>

NoCall == [path |-> NoPath, content |-> <<>>, new |-> None, wrote |-> FALSE,
           raised |-> FALSE]

InitVars(tree) ==
    /\ fs0 = fs
    /\ fsStart = fs
    /\ today = ""
    /\ ext = 1
    /\ todo = <<>>
    /\ out = <<>>
    /\ reads = Zero(tree)
    /\ writes = Zero(tree)
    /\ runs = 0
    /\ prevRun = NoRun
    /\ returned = {}
    /\ failedAt = NoPath
    /\ last = NoCall

Init ==
    /\ \E a \in SmallInputsFor(A_swift), b \in SmallInputsFor(B_swift),
          r \in SmallInputsFor(README_md) :
            fs = [p \in TreePaths |->
                    IF p = A_swift THEN a ELSE IF p = B_swift THEN b
                    ELSE IF p = README_md THEN r ELSE OtherContent]
    /\ listing \in {Listing, Reverse(Listing)}
    /\ pc = "idle"
    /\ InitVars(TreePaths)
    /\ io = "faulty"

Next == StartRun \/ Skip \/ Visit \/ NextExt \/ Finish

Spec == Init /\ [][Next]_vars

----------------------------------------------------------------------------
(* process_file called on one file, with every content the inputs allow;     *)
(* the environment raises no I/O error here                                 *)

FilePaths == {A_swift, README_md, notes_txt}

InitFile ==
    /\ \E p \in FilePaths : \E c \in InputsFor(p) : fs = (p :> c)
    /\ listing = <<CHOOSE p \in DOMAIN fs : TRUE>>
    /\ pc = "call"
    /\ InitVars(DOMAIN fs)
    /\ io = "reliable"

\* one more run reaches the file
Call ==
    /\ pc = "call"
    /\ runs < MaxRuns
    /\ runs' = runs + 1
    /\ today' \in Dates
    /\ prevRun' = IF runs = 0 THEN NoRun
                  ELSE [date |-> today, ok |-> TRUE, none |-> FALSE]
    /\ fsStart' = fs
    /\ \E p \in DOMAIN fs : process_file(p, today')
    /\ UNCHANGED <<ext, listing, todo, fs0>>

NextFile == Call

SpecFile == InitFile /\ [][NextFile]_vars

----------------------------------------------------------------------------
(* What the claims speak of, stated from the specification's words *)

Count(text, sym) == Cardinality({i \in 1..Len(text) : text[i] = sym})

Stamped(path) == Suffix(path) \in {SWIFT, MD}

\* a path the specification excludes: a component starting with a dot, or a
\* component equal to build, Pods or Carthage
ClaimExcluded(path) ==
    \E i \in 1..Len(path) :
        \/ Head(path[i]) = "."
        \/ path[i] = <<"build">>
        \/ path[i] = <<"Pods">>
        \/ path[i] = <<"Carthage">>

\* a path main is to stamp: a .swift or .md file that is not excluded
Eligible(path) == Stamped(path) /\ ~ClaimExcluded(path)

\* what follows each "First created:" of a text
Created(text) ==
    {<<At(text, i + 1), At(text, i + 2)>> : i \in {j \in 1..Len(text) : text[j] = FC}}

Called == last.path # NoPath /\ ~last.raised

----------------------------------------------------------------------------
(* C1 *)

\* C1: a second run on the same tree with the same current date leaves every
\* file as the first run left it, and writes no file.
C1_Idempotent ==
    (pc = "done" /\ ~prevRun.none /\ prevRun.ok /\ prevRun.date = today)
        => /\ fs = fsStart
           /\ \A p \in DOMAIN fs : writes[p] = 0

----------------------------------------------------------------------------
(* C2 *)

\* the text after the leading four-line header, or the whole text
SwiftBody(content) ==
    IF HeaderMatchEnd(content, 1) # 0
    THEN From(content, HeaderMatchEnd(content, 1)) ELSE content

\* the text after the first date block or, without one, after the title and
\* description
MdBody(content) ==
    LET starts == {p \in 1..Len(content) : DatesMatchEnd(content, p) # 0}
        lines == Split(content)
    IN  IF starts # {} THEN From(content, DatesMatchEnd(content, Min(starts)))
        ELSE From(content, Len(Join(SubSeq(lines, 1, desc_end(lines)))))

\* C2: the text after the detected header/date block of the input is the end
\* of the output, unchanged.
C2_BodyPreserved ==
    (Called /\ Stamped(last.path))
        => EndsWith(last.new[1],
                    IF Suffix(last.path) = SWIFT THEN SwiftBody(last.content)
                    ELSE MdBody(last.content))

----------------------------------------------------------------------------
(* C3 *)

\* C3 as claimed: a file that carries "First created: D" carries that D, and
\* no other creation date, after any number of runs.
C3_CreationDateKept ==
    \A p \in DOMAIN fs :
        (Stamped(p) /\ Cardinality(Created(fs0[p])) = 1) => Created(fs[p]) = Created(fs0[p])

\* C3 as amended: a file whose "First created:" lines all carry the script's
\* CREATION_DATE still carries that date, and no other, after a run, whatever
\* the current date of the run.
C3_StampedDateKept ==
    \A p \in DOMAIN fs :
        (Stamped(p) /\ Created(fsStart[p]) = {<<SP, CREATION_DATE>>})
            => Created(fs[p]) = {<<SP, CREATION_DATE>>}

\* a stamped file was stamped again on another day
C3_Witness ==
    /\ Called /\ last.wrote /\ runs = 2 /\ ~prevRun.none /\ prevRun.date # today
    /\ Created(fsStart[last.path]) = {<<SP, CREATION_DATE>>}
    /\ Created(fs0[last.path]) = {}
    /\ fs[last.path] # fsStart[last.path]

----------------------------------------------------------------------------
(* C4 *)

\* C4: a file under an excluded path is never opened for reading or writing
\* by a run, and keeps its content.
C4_Exclusion ==
    \A p \in DOMAIN fs :
        ClaimExcluded(p) => reads[p] = 0 /\ writes[p] = 0 /\ fs[p] = fs0[p]

\* a run went through the whole tree, stamped a file, and left the excluded
\* .swift and .md files alone
C4_Witness ==
    /\ pc = "done"
    /\ writes[A_swift] = 1
    /\ \A p \in {Pods_swift, Carthage_swift, build_md, github_md, hidden_md} :
           p \in DOMAIN fs /\ reads[p] = 0

----------------------------------------------------------------------------
(* C5 *)

\* a title line, description lines, one blank line, then a "## " header, and
\* no date line: the index of the blank line, 0 for any other shape
SectionAfterIntro(lines) ==
    LET blanks == {j \in 2..(Len(lines) - 1) : lines[j] = <<>>}
        j == Min(blanks)
    IN  IF /\ Len(lines) >= 3
           /\ StartsWith(lines[1], <<HASH, SP>>)
           /\ blanks # {}
           /\ \A i \in 2..(j - 1) : HasText(lines[i]) /\ Head(lines[i]) # HASH
           /\ StartsWith(lines[j + 1], <<HASH, HASH, SP>>)
           /\ \A i \in 1..Len(lines) : Count(lines[i], FC) = 0
        THEN j ELSE 0

\* C5: for a title, a description, a blank line and a "## " section, the date
\* block comes immediately before the section header, below the unchanged
\* title and description.
C5_BeforeFirstSection ==
    (Called /\ Suffix(last.path) = MD /\ SectionAfterIntro(Split(last.content)) # 0)
        => LET lines == Split(last.content)
               j == SectionAfterIntro(lines)
           IN  last.new[1] = Join(SubSeq(lines, 1, j)) \o <<NL>>
                               \o <<FC, SP, CREATION_DATE, NL, LU, SP, today, NL, NL>>
                               \o Join(SubSeq(lines, j + 1, Len(lines)))

----------------------------------------------------------------------------
(* C6 *)

\* the content process_file gives a file whose content was c
Given(p, c, date) == IF rendered(c, p, date) = None THEN c ELSE rendered(c, p, date)[1]

\* C6: once a read or write has failed the run is over, the failing file was
\* not tried again, the files processed before it hold their updated content,
\* and no other file was read or written.
C6_PartialFailure ==
    failedAt # NoPath
        => /\ pc = "aborted"
           /\ reads[failedAt] = 1 /\ writes[failedAt] <= 1
           /\ \A p \in returned : fs[p] = Given(p, fsStart[p], today)
           /\ \A p \in DOMAIN fs \ (returned \cup {failedAt}) :
                  reads[p] = 0 /\ writes[p] = 0 /\ fs[p] = fsStart[p]

\* a run aborted after it had updated one file and before it reached another
C6_Witness ==
    /\ pc = "aborted"
    /\ \E p \in returned : writes[p] = 1 /\ fs[p] # fsStart[p]
    /\ \E p \in DOMAIN fs \ (returned \cup {failedAt}) : Eligible(p) /\ reads[p] = 0

----------------------------------------------------------------------------
(* C7 *)

\* C7: process_file writes the file and prints "Updated <path>" exactly when
\* the file is a .swift or .md file whose rendered content differs from the
\* content read; otherwise the file keeps its content and nothing is printed.
C7_WriteOnlyOnChange ==
    Called
        => LET p == last.path
               differs == Stamped(p) /\ last.new # None /\ last.new[1] # last.content
           IN  /\ last.wrote <=> differs
               /\ Len(out) = writes[p]
               /\ \A i \in 1..Len(out) : out[i] = <<"Updated", p>>
               /\ differs => fs[p] = last.new[1] /\ fs[p] # fsStart[p]
               /\ ~differs => fs[p] = last.content /\ fs[p] = fsStart[p]

\* a .md file was written by the first call and left alone, with no notice,
\* by the second
C7_Witness ==
    /\ Called /\ runs = 2 /\ Suffix(last.path) = MD
    /\ ~last.wrote /\ writes[last.path] = 1 /\ Len(out) = 1
    /\ last.new = Some(last.content)

----------------------------------------------------------------------------
(* C8 *)

\* C8: with the counter disabled get_update_count yields None and neither
\* rendered block holds an "Update count:" line: a call adds none to a file.
C8_CounterSuppressed ==
    Called
        => /\ get_update_count(last.content) = None
           /\ Count(new_header(last.content, last.path, today), UC) = 0
           /\ Count(date_section(last.content, today), UC) = 0
           /\ Stamped(last.path) => Count(last.new[1], UC) <= Count(last.content, UC)

\* a file that holds an "Update count: <n>" marker was stamped
C8_Witness ==
    /\ Called /\ last.wrote
    /\ Count(last.content, UC) > 0
    /\ CountMatches(last.content) # {}

----------------------------------------------------------------------------
(* C9 *)

\* C9: update_swift_file yields the new header block followed by the original
\* body: the content without its leading four-line header if it has one, the
\* whole content otherwise.
C9_ReplaceOrPrepend ==
    (Called /\ Suffix(last.path) = SWIFT)
        => last.new[1] =
               <<SL, NL, SL, SP, SP>> \o Name(last.path)
               \o <<NL, SL, SP, SP, RBUM, NL, SL, NL,
                    SL, SP, SP, FC, SP, CREATION_DATE, NL,
                    SL, SP, SP, LU, SP, today, NL, SL, NL>>
               \o SwiftBody(last.content)

----------------------------------------------------------------------------
(* C10 *)

\* C10: a file that started without date lines holds exactly one "First
\* created:" and one "Last updated:" line after any number of runs.
C10_SingleDateBlock ==
    \A p \in DOMAIN fs :
        (Stamped(p) /\ Called /\ Count(fs0[p], FC) = 0 /\ Count(fs0[p], LU) = 0)
            => Count(fs[p], FC) = 1 /\ Count(fs[p], LU) = 1

====
